---------------------------- MODULE Spec2Model ----------------------------
(***************************************************************************)
(* bcnotify: a watch registry, an op/pattern filter and a dispatch core    *)
(* (WaitEvent / NotifyEvent / Close) on top of an fsnotify watcher.        *)
(*                                                                         *)
(* A path is the sequence of its "/"-separated segments and a segment is   *)
(* the sequence of its characters, so that filepath.Clean, filepath.Dir,   *)
(* filepath.Split and filepath.Match are computed and not assumed:         *)
(*   "d/x.t" is << <<"d">>, <<"x",".","t">> >>,  "d/" is << <<"d">>, <<>> >>*)
(***************************************************************************)
EXTENDS Integers, Sequences, FiniteSets, TLC

(***************************************************************************)
(* Bounds of the model.                                                    *)
(***************************************************************************)
\* Raw items (events and errors) the source produces.
MaxEvents == 2
\* Goroutines that may consume (WaitEvent loops, NotifyEvent tasks), and how
\* many of them start in the delivery scenario.
MaxConsumers == 2
MaxDeliveryConsumers == 1
\* Goroutines that call Close directly.
MaxClosers == 1

(***************************************************************************)
(* Op bits (watcher.go:52-60).                                             *)
(***************************************************************************)
Create == 1
Write == 2
Remove == 4
Rename == 8
Chmod == 16
AllOps == 31
OpBits == {Create, Write, Remove, Rename, Chmod}
OpMasks == 0..31

RECURSIVE BitAnd(_, _)
BitAnd(a, b) ==
    IF a = 0 \/ b = 0 THEN 0
    ELSE ((a % 2) * (b % 2)) + 2 * BitAnd(a \div 2, b \div 2)

(***************************************************************************)
(* Names and paths used by the model.                                      *)
(***************************************************************************)
Dot == <<".">>
DotDot == <<".", ".">>
nD == <<"d">>
nS == <<"s">>
nXT == <<"x", ".", "t">>
nXI == <<"x", ".", "i">>
nN == <<"n">>
nU == <<"u">>

pD == <<nD>>
pDslash == <<nD, <<>>>>
pXT == <<nD, nXT>>
pXI == <<nD, nXI>>
pDotXT == <<nD, Dot, nXT>>
pSXT == <<nD, nS, nXT>>
pSupXT == <<nD, nS, DotDot, nXT>>
pN == <<nN>>
pDS == <<nD, nS>>
pDSU == <<nD, nS, nU>>

Last(s) == s[Len(s)]
Front(s) == SubSeq(s, 1, Len(s) - 1)

\* filepath.Clean on a relative path.
RECURSIVE CleanFrom(_, _)
CleanFrom(out, rest) ==
    IF rest = <<>> THEN (IF out = <<>> THEN <<Dot>> ELSE out)
    ELSE LET seg == Head(rest) IN
         IF seg = <<>> \/ seg = Dot THEN CleanFrom(out, Tail(rest))
         ELSE IF seg = DotDot
              THEN IF out # <<>> /\ Last(out) # DotDot
                   THEN CleanFrom(Front(out), Tail(rest))
                   ELSE CleanFrom(Append(out, seg), Tail(rest))
              ELSE CleanFrom(Append(out, seg), Tail(rest))

Clean(path) == CleanFrom(<<>>, path)

\* filepath.Dir: drop the last element, then Clean.
Dir(path) == Clean(Front(path))

\* filepath.Split: the file part is what follows the last separator.
SplitFile(path) == Last(path)

\* The path as one string of characters, separators included.
RECURSIVE JoinChars(_)
JoinChars(path) ==
    IF Len(path) = 1 THEN path[1]
    ELSE path[1] \o <<"/">> \o JoinChars(Tail(path))

(***************************************************************************)
(* filepath.Match for patterns made of literals, "*", "?" and "[".  A "["  *)
(* that is never closed is a malformed pattern (ErrBadPattern); "*" and    *)
(* "?" never match a separator.                                            *)
(***************************************************************************)
BadPattern(pat) ==
    \E i \in 1..Len(pat) :
        /\ pat[i] = "["
        /\ \A j \in (i + 1)..Len(pat) : pat[j] # "]"

RECURSIVE Glob(_, _)
Glob(pat, s) ==
    IF pat = <<>> THEN s = <<>>
    ELSE IF Head(pat) = "*"
         THEN \E k \in 0..Len(s) :
                 /\ \A j \in 1..k : s[j] # "/"
                 /\ Glob(Tail(pat), SubSeq(s, k + 1, Len(s)))
         ELSE /\ s # <<>>
              /\ \/ Head(pat) = "?" /\ Head(s) # "/"
                 \/ Head(pat) = Head(s)
              /\ Glob(Tail(pat), Tail(s))

\* [match |-> .., err |-> ..] as filepath.Match returns it.
Match(pat, s) ==
    IF BadPattern(pat) THEN [match |-> FALSE, err |-> TRUE]
    ELSE [match |-> Glob(pat, s), err |-> FALSE]

NoPattern == <<>>
PatT == <<"*", ".", "t">>
PatBad == <<"[", "x">>

(***************************************************************************)
(* The registry (watcher.go:18-33) and its lookup (watcher.go:69-85).      *)
(***************************************************************************)
Nil == [nil |-> TRUE]

watchPath(path, pattern, ops, isdir) ==
    [path |-> path, pattern |-> pattern, ops |-> ops, isdir |-> isdir]

\* First loop of findWatchPath: the first entry whose cleaned path is the
\* cleaned event path (given here already cleaned).
RECURSIVE ScanExact(_, _, _)
ScanExact(paths, cleaned, i) ==
    IF i > Len(paths) THEN Nil
    ELSE IF cleaned = Clean(paths[i].path) THEN paths[i]
    ELSE ScanExact(paths, cleaned, i + 1)

\* Second loop: the first entry whose cleaned path is the event path's
\* directory (given here already cleaned).
RECURSIVE ScanParent(_, _, _)
ScanParent(paths, cleanedDir, i) ==
    IF i > Len(paths) THEN Nil
    ELSE IF cleanedDir = Clean(paths[i].path) THEN paths[i]
    ELSE ScanParent(paths, cleanedDir, i + 1)

\* findWatchPath with its two loops merged into one pass.
RECURSIVE ScanEither(_, _, _, _)
ScanEither(paths, cleaned, cleanedDir, i) ==
    IF i > Len(paths) THEN Nil
    ELSE IF cleaned = Clean(paths[i].path) \/ cleanedDir = Clean(paths[i].path)
         THEN paths[i]
    ELSE ScanEither(paths, cleaned, cleanedDir, i + 1)

findWatchPath_onePass(paths, path) ==
    ScanEither(paths, Clean(path), Clean(Dir(path)), 1)

\* findWatchPath taking any directory above the path for its second loop.
RECURSIVE ScanAncestor(_, _, _)
ScanAncestor(paths, cleaned, i) ==
    IF i > Len(paths) THEN Nil
    ELSE LET c == Clean(paths[i].path) IN
         IF Len(c) < Len(cleaned) /\ SubSeq(cleaned, 1, Len(c)) = c
         THEN paths[i]
         ELSE ScanAncestor(paths, cleaned, i + 1)

findWatchPath_anyAncestor(paths, path) ==
    LET exact == ScanExact(paths, Clean(path), 1) IN
    IF exact # Nil THEN exact ELSE ScanAncestor(paths, Clean(path), 1)

\* findWatchPath giving the last entry that fits instead of the first.
findWatchPath_lastMatch(paths, path) ==
    LET rev == [i \in 1..Len(paths) |-> paths[Len(paths) + 1 - i]]
        exact == ScanExact(rev, Clean(path), 1)
    IN  IF exact # Nil THEN exact ELSE ScanParent(rev, Clean(Dir(path)), 1)

findWatchPath(paths, path) ==
    LET exact == ScanExact(paths, Clean(path), 1) IN
    IF exact # Nil THEN exact ELSE ScanParent(paths, Clean(Dir(path)), 1)

\* filterByPattern matching the pattern against the whole path.
filterByPattern_wholePath(paths, path) ==
    LET p == findWatchPath(paths, path) IN
    IF p = Nil THEN FALSE
    ELSE IF Len(p.pattern) = 0 THEN TRUE
    ELSE IF ~p.isdir THEN TRUE
    ELSE LET m == Match(p.pattern, JoinChars(path)) IN
         IF m.err THEN FALSE ELSE m.match

\* filterByPattern without the exemption of directly added files.
filterByPattern_noFileExemption(paths, path) ==
    LET p == findWatchPath(paths, path) IN
    IF p = Nil THEN FALSE
    ELSE IF Len(p.pattern) = 0 THEN TRUE
    ELSE LET m == Match(p.pattern, SplitFile(path)) IN
         IF m.err THEN FALSE ELSE m.match

filterByPattern(paths, path) ==
    LET p == findWatchPath(paths, path) IN
    IF p = Nil THEN FALSE
    ELSE IF Len(p.pattern) = 0 THEN TRUE
    ELSE IF ~p.isdir THEN TRUE
    ELSE LET m == Match(p.pattern, SplitFile(path)) IN
         IF m.err THEN FALSE
         ELSE IF m.match THEN TRUE
         ELSE FALSE

\* filterByOp testing for a common bit instead of inclusion.
filterByOp_anyBit(paths, path, op) ==
    LET p == findWatchPath(paths, path) IN
    IF p = Nil THEN FALSE
    ELSE BitAnd(p.ops, op) # 0

filterByOp(paths, path, op) ==
    LET p == findWatchPath(paths, path) IN
    IF p = Nil THEN FALSE
    ELSE IF BitAnd(p.ops, op) = op THEN TRUE
    ELSE FALSE

(***************************************************************************)
(* State.                                                                  *)
(***************************************************************************)
VARIABLES
    watchPaths,   \* fw.watchPaths
    isclosed,     \* fw.isclosed
    closedMu,     \* fw.closedMu: 0 when free, else the task holding it
    chanCloses,   \* number of close(fw.close) executed; closed iff > 0
    srcCloses,    \* number of fw.watcher.Close() calls made
    events,       \* raw events the source has ready on watcher.Events
    errors,       \* raw errors the source has ready on watcher.Errors
    produced,     \* every raw event the source has produced, in order
    taken,        \* every raw item received by a WaitEvent, in order
    tasks,        \* the goroutines: WaitEvent callers, NotifyEvent tasks
                  \* and callers of Close
    closeLog,     \* the Close calls that returned, in order
    log,          \* per goroutine: what its WaitEvent calls returned and
                  \* what its callback got, in order
    blockedAtClose, \* the tasks blocked in the select when Close took effect
    probe,        \* the last lookup made directly on the registry
    fs,           \* the file system: the kind of every path that exists
    srcPaths,     \* the paths registered with the source (fsnotify)
    srcRefuses,   \* the paths the source fails to register
    srcLenient,   \* whether the source accepts to unregister a path it
                  \* does not hold (fsnotify reports an error)
    calls,        \* the Add* / Remove* calls made, with their results
    fsLog,        \* the changes made to the file system
    writer        \* the write of fw.watchPaths in progress, if any

dispVars == <<isclosed, closedMu, chanCloses, srcCloses, events, errors,
              produced, taken, tasks, closeLog, log,
              blockedAtClose>>
treeVars == <<fs, srcPaths, srcRefuses, srcLenient, calls, fsLog, writer>>
vars == <<watchPaths, probe, dispVars, treeVars>>

NoProbe == [none |-> TRUE]

\* The goroutines of the model: the first MaxConsumers may run WaitEvent or
\* a NotifyEvent loop, the others call Close.
ConsumerIds == 1..MaxConsumers
DeliveryIds == {t \in ConsumerIds : t <= MaxDeliveryConsumers}
CloserIds == (MaxConsumers + 1)..(MaxConsumers + MaxClosers)
TaskIds == ConsumerIds \cup CloserIds

Task(kind, pc) == [kind |-> kind, pc |-> pc, ev |-> Nil, err |-> "nil"]

(***************************************************************************)
(* The filters as functions: the registry is any slice of entries, as the  *)
(* package's tests build it (watcher_test.go:42-103), the path any of the  *)
(* probe paths, the op any mask over the five bits.                        *)
(***************************************************************************)
MaxFilterWatch == 2

EntryPaths == {pD, pDslash, pXT}
EntryConfigs ==
    { <<NoPattern, AllOps>>, <<PatT, AllOps>>, <<PatT, Chmod>>,
      <<PatBad, Write>> }
Entries ==
    {watchPath(p, c[1], c[2], d) :
        p \in EntryPaths, c \in EntryConfigs, d \in BOOLEAN}

ProbePaths == {pD, pDslash, pXT, pXI, pDotXT, pSXT, pSupXT, pN}

SeqsUpTo(S, n) == UNION {[1..k -> S] : k \in 0..n}

\* The directory tree the tests make (watcher_test.go:297): d, d/x.t,
\* d/s, d/s/x.t, and one level more, d/s/u.
FullTree ==
    [p \in {pD, pXT, pDS, pSXT, pDSU} |->
        IF p \in {pXT, pSXT} THEN "file" ELSE "dir"]

NewFileSystemWatcher ==
    /\ fs = FullTree
    /\ srcPaths = {}
    /\ srcRefuses = {}
    /\ srcLenient = FALSE
    /\ calls = <<>>
    /\ fsLog = <<>>
    /\ writer = Nil
    /\ isclosed = FALSE
    /\ closedMu = 0
    /\ chanCloses = 0
    /\ srcCloses = 0
    /\ events = <<>>
    /\ errors = <<>>
    /\ produced = <<>>
    /\ taken = <<>>
    /\ tasks = [t \in TaskIds |-> Task("none", "none")]
    /\ closeLog = <<>>
    /\ log = [t \in TaskIds |-> <<>>]
    /\ blockedAtClose = {}

InitFilter ==
    /\ watchPaths \in SeqsUpTo(Entries, MaxFilterWatch)
    /\ probe = NoProbe
    /\ NewFileSystemWatcher

\* One direct call of the three lookups on the registry.
Probe(path) ==
    /\ probe = NoProbe
    /\ probe' = [path |-> path,
                 wp |-> findWatchPath(watchPaths, path),
                 byPattern |-> filterByPattern(watchPaths, path),
                 byOp |-> {op \in OpMasks : filterByOp(watchPaths, path, op)}]
    /\ UNCHANGED <<treeVars, watchPaths, dispVars>>

NextFilter == \E path \in ProbePaths : Probe(path)

SpecFilter == InitFilter /\ [][NextFilter]_vars

(***************************************************************************)
(* Claims about the lookup and the two filters (SpecFilter).               *)
(***************************************************************************)
Bits(mask) == {b \in OpBits : (mask \div b) % 2 = 1}

Min(S) == CHOOSE x \in S : \A y \in S : x <= y

\* Indexes of the entries registered for the path itself, and for the
\* directory that contains it (for "d/", filepath.Dir is "d" itself, which
\* is no containing directory).
OwnEntries(paths, path) ==
    {i \in 1..Len(paths) : Clean(paths[i].path) = Clean(path)}
ParentEntries(paths, path) ==
    {i \in 1..Len(paths) :
        Dir(path) # Clean(path) /\ Clean(paths[i].path) = Dir(path)}

\* C2: when the probed path F has an entry of its own and its directory D
\* has one too, in whatever order they were inserted, findWatchPath(F) is
\* F's (first) entry and not D's.
C2_FileEntryWins ==
    probe # NoProbe =>
        LET own == OwnEntries(watchPaths, probe.path)
            par == ParentEntries(watchPaths, probe.path)
        IN  (own # {} /\ par # {}) =>
                /\ probe.wp = watchPaths[Min(own)]
                /\ \A j \in par : probe.wp # watchPaths[j]

\* The directory was inserted before the file, and the file's entry is found.
C2_Witness ==
    /\ probe # NoProbe
    /\ LET own == OwnEntries(watchPaths, probe.path)
           par == ParentEntries(watchPaths, probe.path)
       IN  /\ own # {} /\ par # {}
           /\ Min(par) < Min(own)
           /\ probe.wp = watchPaths[Min(own)]
           /\ watchPaths[Min(par)].isdir
           /\ ~probe.wp.isdir

\* C3: filterByOp(path, op) is true iff the path resolves to an entry whose
\* mask includes every bit of op, for all 32 masks; so AllOps passes each of
\* the five operations and a one-bit mask passes that operation only.
C3_OpSubset ==
    probe # NoProbe =>
        /\ \A op \in OpMasks :
              op \in probe.byOp <=>
                  (probe.wp # Nil /\ Bits(op) \subseteq Bits(probe.wp.ops))
        /\ (probe.wp # Nil /\ probe.wp.ops = AllOps) => OpBits \subseteq probe.byOp
        /\ (probe.wp # Nil /\ probe.wp.ops \in OpBits) =>
              probe.byOp \cap OpBits = {probe.wp.ops}

C3_Witness ==
    /\ probe # NoProbe
    /\ probe.wp # Nil
    /\ probe.wp.ops = Chmod
    /\ probe.byOp \cap OpBits = {Chmod}
    /\ 0 \in probe.byOp

\* C4: for a path that resolves to a directory entry, filterByPattern is
\* true when the pattern is empty, false when it is malformed, and otherwise
\* true iff the glob matches the last path element alone.
C4_PatternOnFilename ==
    (probe # NoProbe /\ probe.wp # Nil /\ probe.wp.isdir) =>
        LET pat == probe.wp.pattern IN
        /\ pat = <<>> => probe.byPattern
        /\ BadPattern(pat) => ~probe.byPattern
        /\ (pat # <<>> /\ ~BadPattern(pat)) =>
              (probe.byPattern <=> Glob(pat, Last(probe.path)))

\* d/x.t under a directory entry with pattern *.t: only the file name matches.
C4_Witness ==
    /\ probe # NoProbe
    /\ probe.path = pXT
    /\ probe.wp # Nil
    /\ probe.wp.isdir
    /\ probe.wp.pattern = PatT
    /\ probe.byPattern
    /\ ~Glob(PatT, JoinChars(probe.path))

\* C5: for a path that resolves to an entry with isdir = FALSE,
\* filterByPattern is true whatever the pattern of the entry.
C5_FileIgnoresPattern ==
    (probe # NoProbe /\ probe.wp # Nil /\ ~probe.wp.isdir) => probe.byPattern

\* A file entry with a pattern that matches nothing (it is malformed).
C5_Witness ==
    /\ probe # NoProbe
    /\ probe.wp # Nil
    /\ ~probe.wp.isdir
    /\ probe.wp.pattern = PatBad
    /\ probe.byPattern

(***************************************************************************)
(* The dispatch core: the source's two streams, WaitEvent, NotifyEvent and *)
(* Close.  A task is a goroutine; its pc is the statement it is at.        *)
(*   select     in WaitEvent, about to execute the select                  *)
(*   parked     blocked in the select, no case ready                       *)
(*   filterOp   received an event, about to call filterByOp                *)
(*   filterPat  about to call filterByPattern                              *)
(*   ret        WaitEvent is returning (ev, err)                           *)
(*   cb         in the NotifyEvent callback                                *)
(*   c_lock .. c_src   in Close                                            *)
(*   done       the goroutine ended                                        *)
(***************************************************************************)
\* Registries the Add* calls build, one per scenario of the tests.
Registries ==
    { <<watchPath(pXT, NoPattern, Chmod, FALSE)>>,
      <<watchPath(pD, PatT, AllOps, TRUE)>>,
      <<watchPath(pD, NoPattern, Write, TRUE),
        watchPath(pXT, NoPattern, Chmod, FALSE)>> }

\* What the source reports: a write and a chmod of d/x.t and a write of
\* d/x.i (which the first registry does not watch).
RawEvent(path, op) == [Name |-> path, Op |-> op]
RawEvents ==
    {RawEvent(pXT, Write), RawEvent(pXT, Chmod), RawEvent(pXI, Write)}

\* A raw event as the public Event (watcher.go:63-65).
wrapEvent_noOp(e) == [event |-> e, Name |-> e.Name, Op |-> 0]

wrapEvent(e) == [event |-> e, Name |-> e.Name, Op |-> e.Op]

Parked == {t \in TaskIds : tasks[t].pc = "parked"}

Init ==
    /\ watchPaths \in Registries
    /\ probe = NoProbe
    /\ NewFileSystemWatcher

\* The next goroutine of the model that has not started yet.
Unstarted(t) ==
    /\ tasks[t].kind = "none"
    /\ \A u \in TaskIds :
          (u < t /\ (u \in ConsumerIds <=> t \in ConsumerIds)) =>
              tasks[u].kind # "none"

\* A goroutine starts calling WaitEvent in a loop.
StartWaitEvent(t) ==
    /\ Unstarted(t)
    /\ tasks' = [tasks EXCEPT ![t] = Task("wait", "select")]
    /\ UNCHANGED <<treeVars, watchPaths, probe, isclosed, closedMu, chanCloses,
                   srcCloses, events, errors, produced, taken, closeLog, log,
                   blockedAtClose>>

\* NotifyEvent starts its goroutine.
NotifyEvent(t) ==
    /\ Unstarted(t)
    /\ tasks' = [tasks EXCEPT ![t] = Task("notify", "select")]
    /\ UNCHANGED <<treeVars, watchPaths, probe, isclosed, closedMu, chanCloses,
                   srcCloses, events, errors, produced, taken, closeLog, log,
                   blockedAtClose>>

\* The raw errors the source has produced so far.
ErrorsProduced ==
    Cardinality({i \in 1..Len(taken) : taken[i].err = "source"}) + Len(errors)

\* The source has a raw event: it goes to a receiver blocked in the select
\* if there is one, and waits to be received otherwise.
SourceEvent(e) ==
    /\ srcCloses = 0
    /\ Len(produced) + ErrorsProduced < MaxEvents
    /\ produced' = Append(produced, e)
    /\ IF Parked # {}
       THEN \E t \in Parked :
               /\ tasks' = [tasks EXCEPT ![t].pc = "filterOp", ![t].ev = e]
               /\ taken' = Append(taken, [t |-> t, ev |-> e, err |-> "nil"])
               /\ UNCHANGED events
       ELSE /\ events' = Append(events, e)
            /\ UNCHANGED <<tasks, taken>>
    /\ UNCHANGED <<treeVars, watchPaths, probe, isclosed, closedMu, chanCloses,
                   srcCloses, errors, closeLog, log, blockedAtClose>>

\* The source has an error.
SourceError ==
    /\ srcCloses = 0
    /\ Len(produced) + ErrorsProduced < MaxEvents
    /\ IF Parked # {}
       THEN \E t \in Parked :
               /\ tasks' = [tasks EXCEPT ![t].pc = "ret", ![t].err = "source"]
               /\ taken' = Append(taken, [t |-> t, ev |-> Nil, err |-> "source"])
               /\ UNCHANGED errors
       ELSE /\ errors' = Append(errors, "source")
            /\ UNCHANGED <<tasks, taken>>
    /\ UNCHANGED <<treeVars, watchPaths, probe, isclosed, closedMu, chanCloses,
                   srcCloses, events, produced, closeLog, log, blockedAtClose>>

\* A receive that leaves the item in the stream.
WaitEventSelect_peek(t) ==
    /\ tasks[t].pc = "select"
    /\ \/ /\ events # <<>>
          /\ tasks' = [tasks EXCEPT ![t].pc = "filterOp",
                                     ![t].ev = Head(events)]
          /\ taken' = Append(taken,
                             [t |-> t, ev |-> Head(events), err |-> "nil"])
       \/ /\ events = <<>>
          /\ tasks' = [tasks EXCEPT ![t].pc = "parked"]
          /\ UNCHANGED taken
    /\ Len(taken) <= MaxEvents
    /\ UNCHANGED <<treeVars, watchPaths, probe, isclosed, closedMu, chanCloses,
                   srcCloses, events, errors, produced, closeLog, log,
                   blockedAtClose>>

\* The select of WaitEvent (watcher.go:159-171): one of the ready cases, or
\* the goroutine blocks.
WaitEventSelect(t) ==
    /\ tasks[t].pc = "select"
    /\ \/ /\ events # <<>>
          /\ events' = Tail(events)
          /\ tasks' = [tasks EXCEPT ![t].pc = "filterOp", ![t].ev = Head(events)]
          /\ taken' = Append(taken, [t |-> t, ev |-> Head(events), err |-> "nil"])
          /\ UNCHANGED errors
       \/ /\ errors # <<>>
          /\ errors' = Tail(errors)
          /\ tasks' = [tasks EXCEPT ![t].pc = "ret", ![t].err = "source"]
          /\ taken' = Append(taken, [t |-> t, ev |-> Nil, err |-> "source"])
          /\ UNCHANGED events
       \/ /\ chanCloses > 0
          /\ tasks' = [tasks EXCEPT ![t].pc = "ret", ![t].err = "closed"]
          /\ UNCHANGED <<events, errors, taken>>
       \/ /\ events = <<>> /\ errors = <<>> /\ chanCloses = 0
          /\ tasks' = [tasks EXCEPT ![t].pc = "parked"]
          /\ UNCHANGED <<events, errors, taken>>
    /\ UNCHANGED <<treeVars, watchPaths, probe, isclosed, closedMu, chanCloses,
                   srcCloses, produced, closeLog, log, blockedAtClose>>

\* watcher.go:161: the op filter; a rejected event is dropped and the loop
\* continues.
WaitEventFilterOp(t) ==
    /\ tasks[t].pc = "filterOp"
    /\ IF filterByOp(watchPaths, tasks[t].ev.Name, tasks[t].ev.Op)
       THEN tasks' = [tasks EXCEPT ![t].pc = "filterPat"]
       ELSE tasks' = [tasks EXCEPT ![t].pc = "select", ![t].ev = Nil]
    /\ UNCHANGED <<treeVars, watchPaths, probe, isclosed, closedMu, chanCloses,
                   srcCloses, events, errors, produced, taken, closeLog, log,
                   blockedAtClose>>

\* The pattern filter left out: every event that passed the op filter returns.
WaitEventFilterPattern_skipped(t) ==
    /\ tasks[t].pc = "filterPat"
    /\ tasks' = [tasks EXCEPT ![t].pc = "ret", ![t].ev = wrapEvent(tasks[t].ev)]
    /\ UNCHANGED <<treeVars, watchPaths, probe, isclosed, closedMu, chanCloses,
                   srcCloses, events, errors, produced, taken, closeLog, log,
                   blockedAtClose>>

\* watcher.go:162-166: the pattern filter; an accepted event is returned.
WaitEventFilterPattern(t) ==
    /\ tasks[t].pc = "filterPat"
    /\ IF filterByPattern(watchPaths, tasks[t].ev.Name)
       THEN tasks' = [tasks EXCEPT ![t].pc = "ret",
                                   ![t].ev = wrapEvent(tasks[t].ev)]
       ELSE tasks' = [tasks EXCEPT ![t].pc = "select", ![t].ev = Nil]
    /\ UNCHANGED <<treeVars, watchPaths, probe, isclosed, closedMu, chanCloses,
                   srcCloses, events, errors, produced, taken, closeLog, log,
                   blockedAtClose>>

Returned(t) == [what |-> "return", ev |-> tasks[t].ev, err |-> tasks[t].err]
Called(t) == [what |-> "callback", ev |-> tasks[t].ev, err |-> tasks[t].err]

\* WaitEvent returns to a direct caller, which calls it again unless the
\* watcher is closed.
WaitEventReturn(t) ==
    /\ tasks[t].kind = "wait"
    /\ tasks[t].pc = "ret"
    /\ log' = [log EXCEPT ![t] = Append(@, Returned(t))]
    /\ tasks' = [tasks EXCEPT
                   ![t] = Task("wait", IF tasks[t].err = "closed"
                                        THEN "done" ELSE "select")]
    /\ UNCHANGED <<treeVars, watchPaths, probe, isclosed, closedMu, chanCloses,
                   srcCloses, events, errors, produced, taken, closeLog,
                   blockedAtClose>>

\* The NotifyEvent loop without its test for ErrWatcherClosed.
NotifyEventLoop_noClosedTest(t) ==
    /\ tasks[t].kind = "notify"
    /\ tasks[t].pc = "ret"
    /\ log' = [log EXCEPT ![t] = @ \o <<Returned(t), Called(t)>>]
    /\ tasks' = [tasks EXCEPT ![t] = Task("notify", "cb")]
    /\ UNCHANGED <<treeVars, watchPaths, probe, isclosed, closedMu, chanCloses,
                   srcCloses, events, errors, produced, taken, closeLog,
                   blockedAtClose>>

\* The NotifyEvent loop ending on any error, not on ErrWatcherClosed alone.
NotifyEventLoop_endsOnAnyError(t) ==
    /\ tasks[t].kind = "notify"
    /\ tasks[t].pc = "ret"
    /\ IF tasks[t].err # "nil"
       THEN /\ log' = [log EXCEPT ![t] = Append(@, Returned(t))]
            /\ tasks' = [tasks EXCEPT ![t] = Task("notify", "done")]
       ELSE /\ log' = [log EXCEPT ![t] = @ \o <<Returned(t), Called(t)>>]
            /\ tasks' = [tasks EXCEPT ![t] = Task("notify", "cb")]
    /\ UNCHANGED <<treeVars, watchPaths, probe, isclosed, closedMu, chanCloses,
                   srcCloses, events, errors, produced, taken, closeLog,
                   blockedAtClose>>

\* watcher.go:180-189: WaitEvent returns to the NotifyEvent loop, which ends
\* on ErrWatcherClosed and calls notify otherwise.
NotifyEventLoop(t) ==
    /\ tasks[t].kind = "notify"
    /\ tasks[t].pc = "ret"
    /\ IF tasks[t].err = "closed"
       THEN /\ log' = [log EXCEPT ![t] = Append(@, Returned(t))]
            /\ tasks' = [tasks EXCEPT ![t] = Task("notify", "done")]
       ELSE /\ log' = [log EXCEPT ![t] = @ \o <<Returned(t), Called(t)>>]
            /\ tasks' = [tasks EXCEPT ![t] = Task("notify", "cb")]
    /\ UNCHANGED <<treeVars, watchPaths, probe, isclosed, closedMu, chanCloses,
                   srcCloses, events, errors, produced, taken, closeLog,
                   blockedAtClose>>

\* The callback returns and the loop calls WaitEvent again.
CallbackReturn(t) ==
    /\ tasks[t].pc = "cb"
    /\ tasks' = [tasks EXCEPT ![t].pc = "select"]
    /\ UNCHANGED <<treeVars, watchPaths, probe, isclosed, closedMu, chanCloses,
                   srcCloses, events, errors, produced, taken, closeLog, log,
                   blockedAtClose>>

\* The callback calls Close.
CallbackClose(t) ==
    /\ tasks[t].pc = "cb"
    /\ tasks' = [tasks EXCEPT ![t].pc = "c_lock"]
    /\ UNCHANGED <<treeVars, watchPaths, probe, isclosed, closedMu, chanCloses,
                   srcCloses, events, errors, produced, taken, closeLog, log,
                   blockedAtClose>>

\* A goroutine calls Close.
CallClose(t) ==
    /\ Unstarted(t)
    /\ tasks' = [tasks EXCEPT ![t] = Task("closer", "c_lock")]
    /\ UNCHANGED <<treeVars, watchPaths, probe, isclosed, closedMu, chanCloses,
                   srcCloses, events, errors, produced, taken, closeLog, log,
                   blockedAtClose>>

\* Where a task goes on when its Close call returns.
AfterClose(t) == IF tasks[t].kind = "closer" THEN "done" ELSE "select"

\* Close without the mutex.
CloseLock_noMutex(t) ==
    /\ tasks[t].pc = "c_lock"
    /\ tasks' = [tasks EXCEPT ![t].pc = "c_check"]
    /\ UNCHANGED <<treeVars, watchPaths, probe, isclosed, closedMu, chanCloses,
                   srcCloses, events, errors, produced, taken, closeLog, log,
                   blockedAtClose>>

\* watcher.go:145: fw.closedMu.Lock()
CloseLock(t) ==
    /\ tasks[t].pc = "c_lock"
    /\ closedMu = 0
    /\ closedMu' = t
    /\ tasks' = [tasks EXCEPT ![t].pc = "c_check"]
    /\ UNCHANGED <<treeVars, watchPaths, probe, isclosed, chanCloses, srcCloses, events,
                   errors, produced, taken, closeLog, log, blockedAtClose>>

\* watcher.go:146-149: a closed watcher returns nil, the deferred Unlock runs.
CloseCheck(t) ==
    /\ tasks[t].pc = "c_check"
    /\ IF isclosed
       THEN /\ closedMu' = 0
            /\ closeLog' = Append(closeLog, [t |-> t, did |-> FALSE, err |-> "nil"])
            /\ tasks' = [tasks EXCEPT ![t].pc = AfterClose(t)]
       ELSE /\ tasks' = [tasks EXCEPT ![t].pc = "c_chan"]
            /\ UNCHANGED <<closedMu, closeLog>>
    /\ UNCHANGED <<treeVars, watchPaths, probe, isclosed, chanCloses, srcCloses, events,
                   errors, produced, taken, log, blockedAtClose>>

\* Close forgetting the shutdown channel.
CloseChan_forgotten(t) ==
    /\ tasks[t].pc = "c_chan"
    /\ isclosed' = TRUE
    /\ blockedAtClose' = blockedAtClose \cup Parked
    /\ tasks' = [tasks EXCEPT ![t].pc = "c_src"]
    /\ UNCHANGED <<treeVars, watchPaths, probe, closedMu, chanCloses,
                   srcCloses, events, errors, produced, taken, closeLog, log>>

\* watcher.go:150-151: fw.isclosed = true; close(fw.close) wakes every
\* goroutine blocked in the select, each with the closed case.
CloseChan(t) ==
    /\ tasks[t].pc = "c_chan"
    /\ isclosed' = TRUE
    /\ chanCloses' = chanCloses + 1
    /\ blockedAtClose' = blockedAtClose \cup Parked
    /\ tasks' = [u \in TaskIds |->
                   IF u = t THEN [tasks[u] EXCEPT !.pc = "c_src"]
                   ELSE IF tasks[u].pc = "parked"
                        THEN [tasks[u] EXCEPT !.pc = "ret", !.err = "closed"]
                        ELSE tasks[u]]
    /\ UNCHANGED <<treeVars, watchPaths, probe, closedMu, srcCloses, events,
                   errors, produced, taken, closeLog, log>>

\* Close returning without the Unlock.
CloseSource_noUnlock(t, srcErr) ==
    /\ tasks[t].pc = "c_src"
    /\ srcCloses' = srcCloses + 1
    /\ closeLog' = Append(closeLog, [t |-> t, did |-> TRUE, err |-> srcErr])
    /\ tasks' = [tasks EXCEPT ![t].pc = AfterClose(t)]
    /\ UNCHANGED <<treeVars, watchPaths, probe, isclosed, closedMu, chanCloses, events,
                   errors, produced, taken, log, blockedAtClose>>

\* watcher.go:152: return fw.watcher.Close(), then the deferred Unlock.
CloseSource(t, srcErr) ==
    /\ tasks[t].pc = "c_src"
    /\ srcCloses' = srcCloses + 1
    /\ closedMu' = IF closedMu = t THEN 0 ELSE closedMu
    /\ closeLog' = Append(closeLog, [t |-> t, did |-> TRUE, err |-> srcErr])
    /\ tasks' = [tasks EXCEPT ![t].pc = AfterClose(t)]
    /\ UNCHANGED <<treeVars, watchPaths, probe, isclosed, chanCloses, events, errors,
                   produced, taken, log, blockedAtClose>>

Close(t) ==
    \/ CloseLock(t)
    \/ CloseCheck(t)
    \/ CloseChan(t)
    \/ \E srcErr \in {"nil", "source"} : CloseSource(t, srcErr)

WaitEvent(t) ==
    \/ WaitEventSelect(t)
    \/ WaitEventFilterOp(t)
    \/ WaitEventFilterPattern(t)

\* The steps of a consumer goroutine.
Consume(t) ==
    \/ WaitEvent(t)
    \/ WaitEventReturn(t)
    \/ NotifyEventLoop(t)
    \/ CallbackReturn(t)

\* Delivery: the watcher stays open; the source produces, the consumers
\* receive and filter.
Next ==
    \/ \E t \in DeliveryIds : StartWaitEvent(t)
    \/ \E t \in DeliveryIds : NotifyEvent(t)
    \/ \E e \in RawEvents : SourceEvent(e)
    \/ SourceError
    \/ \E t \in DeliveryIds : Consume(t)

Spec == Init /\ [][Next]_vars

\* Shutdown: one registry, MaxCloseEvents raw events at most, and Close
\* called from goroutines of its own and from the callback.
MaxCloseEvents == 1
CloseRegistry == <<watchPath(pD, PatT, AllOps, TRUE)>>
CloseEvents == {RawEvent(pXT, Write)}

InitClose ==
    /\ watchPaths = CloseRegistry
    /\ probe = NoProbe
    /\ NewFileSystemWatcher

NextClose ==
    \/ \E t \in ConsumerIds : StartWaitEvent(t)
    \/ \E t \in ConsumerIds : NotifyEvent(t)
    \/ \E e \in CloseEvents : Len(produced) < MaxCloseEvents /\ SourceEvent(e)
    \/ \E t \in ConsumerIds : Consume(t)
    \/ \E t \in ConsumerIds : CallbackClose(t)
    \/ \E t \in CloserIds : CallClose(t)
    \/ \E t \in TaskIds : Close(t)

SpecClose == InitClose /\ [][NextClose]_vars

\* The Go scheduler runs every goroutine that can run; the source and the
\* callers of the API are under no obligation.
Running(t) == Consume(t) \/ Close(t)

SpecCloseLive ==
    SpecClose /\ \A t \in TaskIds : WF_vars(Running(t))

(***************************************************************************)
(* Claims about delivery (Spec).                                           *)
(***************************************************************************)
Map(s, F(_)) == [i \in 1..Len(s) |-> F(s[i])]

\* The registry entry of the path exists, its mask has every bit of the op
\* and the pattern check accepts the path.
PassesFilters(name, op) ==
    LET p == findWatchPath(watchPaths, name) IN
    /\ p # Nil
    /\ Bits(op) \subseteq Bits(p.ops)
    /\ filterByPattern(watchPaths, name)

Changed(t) == tasks'[t] # tasks[t]

\* C1: WaitEvent returns an event (to its caller, and so to a NotifyEvent
\* callback) only if the event's path resolves to an entry whose mask
\* contains the event's op and whose pattern check accepts the path; an
\* event that fails a check is dropped and the call goes back to its select
\* without returning.
C1_OnlyFilteredEventsReturn ==
    /\ [](\A t \in ConsumerIds :
             /\ \A i \in 1..Len(log[t]) :
                   log[t][i].ev # Nil =>
                       PassesFilters(log[t][i].ev.Name, log[t][i].ev.Op)
             /\ (tasks[t].pc = "ret" /\ tasks[t].ev # Nil) =>
                   PassesFilters(tasks[t].ev.Name, tasks[t].ev.Op))
    /\ [][\A t \in ConsumerIds :
            (/\ tasks[t].pc \in {"filterOp", "filterPat"}
             /\ ~PassesFilters(tasks[t].ev.Name, tasks[t].ev.Op)
             /\ Changed(t)) =>
                /\ tasks'[t].pc \in {"select", "filterPat"}
                /\ tasks[t].pc = "filterPat" => tasks'[t].pc = "select"
                /\ log' = log]_vars

\* One consumer received an event that fails a filter and then one that
\* passes, and returned the second only.
C1_Witness ==
    \E t \in ConsumerIds :
        /\ Len(taken) = 2
        /\ taken[1].t = t /\ taken[2].t = t
        /\ taken[1].ev # Nil /\ taken[2].ev # Nil
        /\ ~PassesFilters(taken[1].ev.Name, taken[1].ev.Op)
        /\ PassesFilters(taken[2].ev.Name, taken[2].ev.Op)
        /\ Len(log[t]) >= 1
        /\ log[t][1].ev # Nil
        /\ \A i \in 1..Len(log[t]) :
              log[t][i].ev # Nil => log[t][i].ev.event = taken[2].ev

Started == {t \in ConsumerIds : tasks[t].kind # "none"}

IsEvent(x) == x.ev # Nil
NameOp(x) == <<x.ev.Name, x.ev.Op>>
RawNameOp(e) == <<e.Name, e.Op>>

\* The raw events received so far, and those whose handling is over.
TakenEvents == Map(SelectSeq(taken, IsEvent), LAMBDA x : x.ev)
InFlight ==
    \E t \in ConsumerIds :
        \/ tasks[t].pc \in {"filterOp", "filterPat"}
        \/ tasks[t].pc = "ret" /\ tasks[t].ev # Nil
Handled == IF InFlight THEN Front(TakenEvents) ELSE TakenEvents

\* What a consumer got: the events WaitEvent returned to a direct caller,
\* the events passed to the callback of a NotifyEvent task.
Delivered(t) ==
    LET how == IF tasks[t].kind = "notify" THEN "callback" ELSE "return"
        IsDelivery(x) == x.ev # Nil /\ x.what = how
    IN  Map(SelectSeq(log[t], IsDelivery), NameOp)

BothFilters(e) ==
    filterByOp(watchPaths, e.Name, e.Op) /\ filterByPattern(watchPaths, e.Name)

\* C6: with one consumer (a WaitEvent loop or a NotifyEvent task) and the
\* registry unchanged, the events delivered are the raw events that pass
\* both filters, in the source's order, path and op unchanged, none lost,
\* none twice.
C6_DeliveredIsFilteredSubsequence ==
    Cardinality(Started) <= 1 =>
        /\ TakenEvents \o events = produced
        /\ \A t \in Started :
              Delivered(t) = Map(SelectSeq(Handled, BothFilters), RawNameOp)

\* The file d/x.t watched for Chmod: of a write and a chmod, the chmod alone
\* is delivered.
C6_Witness ==
    /\ Cardinality(Started) = 1
    /\ watchPaths = <<watchPath(pXT, NoPattern, Chmod, FALSE)>>
    /\ produced = <<RawEvent(pXT, Write), RawEvent(pXT, Chmod)>>
    /\ events = <<>>
    /\ ~InFlight
    /\ \A t \in Started : Delivered(t) = << <<pXT, Chmod>> >>

(***************************************************************************)
(* Claims about shutdown (SpecClose, SpecCloseLive).                       *)
(***************************************************************************)
\* C7: whatever the number of Close calls, one after the other or at the
\* same time, the shutdown channel is closed once, the source's Close is
\* called at most once, and every call but the first to take effect returns
\* nil and touches neither.
C7_CloseOnce ==
    /\ chanCloses <= 1
    /\ srcCloses <= 1
    /\ isclosed <=> chanCloses = 1
    /\ closeLog # <<>> => (chanCloses = 1 /\ srcCloses = 1)
    /\ \A i \in 1..Len(closeLog) :
          /\ closeLog[i].did <=> i = 1
          /\ i > 1 => closeLog[i].err = "nil"

\* Two goroutines called Close: the first call closed the watcher, the
\* second returned nil, and the channel and the source were closed once.
C7_Witness ==
    /\ Len(closeLog) = 2
    /\ closeLog[1].t # closeLog[2].t
    /\ closeLog[1].did /\ ~closeLog[2].did
    /\ chanCloses = 1
    /\ srcCloses = 1

InClose(t) == tasks[t].pc \in {"c_lock", "c_check", "c_chan", "c_src"}

ClosedReturns(t) ==
    {i \in 1..Len(log[t]) :
        log[t][i].what = "return" /\ log[t][i].err = "closed"}

\* C8: every WaitEvent call blocked when Close takes effect, in a direct
\* caller or in a NotifyEvent task, returns in the end, and what it returns
\* is ErrWatcherClosed, once.
C8_BlockedCallsReturnClosed ==
    /\ [](\A t \in blockedAtClose :
             /\ Cardinality(ClosedReturns(t)) <= 1
             /\ \/ tasks[t].pc = "ret" /\ tasks[t].err = "closed"
                   /\ ClosedReturns(t) = {}
                \/ tasks[t].pc = "done" /\ ClosedReturns(t) # {})
    /\ \A t \in ConsumerIds :
          (t \in blockedAtClose) ~> (ClosedReturns(t) # {})

\* A direct caller and a NotifyEvent task were both blocked at the close and
\* both calls returned ErrWatcherClosed.
C8_Witness ==
    /\ Cardinality(blockedAtClose) >= 2
    /\ \E t, u \in blockedAtClose :
          /\ tasks[t].kind = "wait" /\ tasks[u].kind = "notify"
          /\ ClosedReturns(t) # {} /\ ClosedReturns(u) # {}

\* C9: a Close call returns, whatever WaitEvent calls and NotifyEvent tasks
\* are blocked or running, whatever other Close calls are in progress, and
\* also when it is made by a callback.
C9_CloseReturns ==
    \A t \in TaskIds : InClose(t) ~> ~InClose(t)

\* A callback's Close and another goroutine's Close both returned while a
\* WaitEvent call was blocked at the close.
C9_Witness ==
    /\ \E i, j \in 1..Len(closeLog) :
          closeLog[i].t \in ConsumerIds /\ closeLog[j].t \in CloserIds
    /\ blockedAtClose # {}

\* C10: the callback is never called with ErrWatcherClosed; a task whose
\* WaitEvent returned it has ended, without a callback, and reads nothing
\* from the streams any more.
C10_ClosedEndsTaskSilently ==
    /\ [](\A t \in ConsumerIds : \A i \in 1..Len(log[t]) :
             /\ log[t][i].what = "callback" => log[t][i].err # "closed"
             /\ (log[t][i].err = "closed" /\ tasks[t].kind = "notify") =>
                   /\ tasks[t].pc = "done"
                   /\ i = Len(log[t]))
    /\ [][\A t \in ConsumerIds :
            (tasks[t].kind = "notify" /\ tasks[t].pc = "done") =>
                /\ ~Changed(t)
                /\ taken' # taken => Last(taken').t # t]_vars

\* A NotifyEvent task called its callback, then got ErrWatcherClosed and
\* ended.
C10_Witness ==
    \E t \in ConsumerIds :
        /\ tasks[t].kind = "notify"
        /\ tasks[t].pc = "done"
        /\ ClosedReturns(t) # {}
        /\ \E i \in 1..Len(log[t]) : log[t][i].what = "callback"

(***************************************************************************)
(* Claims about errors and about several consumers.                        *)
(***************************************************************************)
\* The raw errors goroutine t received, and those its WaitEvent returned.
ErrorsTakenBy(t) ==
    Cardinality({i \in 1..Len(taken) :
                    taken[i].t = t /\ taken[i].err = "source"})
ErrorsReturnedTo(t) ==
    Cardinality({i \in 1..Len(log[t]) :
                    log[t][i].what = "return" /\ log[t][i].err = "source"})
ErrorsCalledBack(t) ==
    Cardinality({i \in 1..Len(log[t]) :
                    log[t][i].what = "callback" /\ log[t][i].err = "source"})
ReturningError(t) == tasks[t].pc = "ret" /\ tasks[t].err = "source"

\* C11: a raw error received by a WaitEvent call goes to its return at once,
\* with no event and without a filter step, and is returned once, by that
\* call; a NotifyEvent task passes each one to its callback as (nil, err);
\* what a call returns and what a callback gets is an event or an error,
\* never both and never neither; and after an error the task goes back to
\* WaitEvent.
C11_ErrorsReturnedOnce ==
    /\ [](\A t \in ConsumerIds :
             /\ ErrorsReturnedTo(t) + (IF ReturningError(t) THEN 1 ELSE 0)
                   = ErrorsTakenBy(t)
             /\ tasks[t].kind = "notify" =>
                   ErrorsCalledBack(t) = ErrorsReturnedTo(t)
             /\ tasks[t].kind = "wait" => ErrorsCalledBack(t) = 0
             /\ \A i \in 1..Len(log[t]) :
                   (log[t][i].ev = Nil) <=> (log[t][i].err # "nil")
             /\ tasks[t].pc # "done")
    /\ [][\A t \in ConsumerIds :
            /\ (taken' # taken /\ Last(taken').t = t
                   /\ Last(taken').err = "source") =>
                  /\ tasks'[t].pc = "ret"
                  /\ tasks'[t].ev = Nil
                  /\ tasks'[t].err = "source"
            /\ (tasks[t].pc = "cb" /\ Changed(t)) =>
                  tasks'[t].pc = "select"]_vars

\* A NotifyEvent task got an error in its callback, then an event.
C11_Witness ==
    \E t \in ConsumerIds :
        /\ tasks[t].kind = "notify"
        /\ Len(log[t]) = 4
        /\ log[t][2].what = "callback"
        /\ log[t][2].ev = Nil /\ log[t][2].err = "source"
        /\ log[t][4].what = "callback"
        /\ log[t][4].ev # Nil /\ log[t][4].err = "nil"

\* Several consumers on one watcher: WaitEvent loops and NotifyEvent tasks
\* on the registry of a directory watched with a pattern.
InitShare ==
    /\ watchPaths = <<watchPath(pD, PatT, AllOps, TRUE)>>
    /\ probe = NoProbe
    /\ NewFileSystemWatcher

NextShare ==
    \/ \E t \in ConsumerIds : StartWaitEvent(t)
    \/ \E t \in ConsumerIds : NotifyEvent(t)
    \/ \E e \in RawEvents : SourceEvent(e)
    \/ SourceError
    \/ \E t \in ConsumerIds : Consume(t)

SpecShare == InitShare /\ [][NextShare]_vars

\* The raw events goroutine t received, and those it is done with.
TakenBy(t) ==
    LET Mine(x) == x.t = t /\ x.ev # Nil
    IN  Map(SelectSeq(taken, Mine), LAMBDA x : x.ev)
Handling(t) ==
    \/ tasks[t].pc \in {"filterOp", "filterPat"}
    \/ tasks[t].pc = "ret" /\ tasks[t].ev # Nil
HandledBy(t) == IF Handling(t) THEN Front(TakenBy(t)) ELSE TakenBy(t)

InitNotify ==
    /\ watchPaths = <<watchPath(pD, PatT, AllOps, TRUE)>>
    /\ probe = NoProbe
    /\ fs = FullTree
    /\ srcPaths = {}
    /\ srcRefuses = {}
    /\ srcLenient = FALSE
    /\ calls = <<>>
    /\ fsLog = <<>>
    /\ writer = Nil
    /\ isclosed = FALSE
    /\ closedMu = 0
    /\ chanCloses = 0
    /\ srcCloses = 0
    /\ events = <<>>
    /\ errors = <<>>
    /\ produced = <<>>
    /\ taken = <<>>
    /\ \E k \in 1..MaxConsumers :
          tasks = [t \in TaskIds |->
                     IF t <= k THEN Task("notify", "select")
                     ELSE Task("none", "none")]
    /\ closeLog = <<>>
    /\ log = [t \in TaskIds |-> <<>>]
    /\ blockedAtClose = {}

NextNotify ==
    \/ \E e \in RawEvents : SourceEvent(e)
    \/ \E t \in ConsumerIds : WaitEvent(t)
    \/ \E t \in ConsumerIds : NotifyEventLoop(t)
    \/ \E t \in ConsumerIds : CallbackReturn(t)

SpecNotify == InitNotify /\ [][NextNotify]_vars

\* Nothing is left to receive and every task is blocked in its select.
Quiescent ==
    /\ events = <<>>
    /\ \A t \in Started : tasks[t].pc = "parked"

\* C13 as claimed: once nothing is left to receive, each registered
\* function was called for every raw event that passes both filters,
\* however many functions are registered.
C13_EveryFunctionGetsEveryEvent ==
    Quiescent =>
        \A t \in Started :
            Delivered(t) = Map(SelectSeq(produced, BothFilters), RawNameOp)

(***************************************************************************)
(* The registry operations: AddFile, RemoveFile, AddDir, RemoveDir and the *)
(* source's register / unregister.  A call runs on the record              *)
(* [watchPaths, srcPaths, err] and gives the record it leaves.             *)
(***************************************************************************)
MaxCalls == 2
\* Changes made to the file system while the watcher runs.
MaxFsOps == 3
MaxSourceFailures == 1

\* os.Stat in isDir (watcher.go:195-201).
Stat(path) ==
    LET c == Clean(path) IN IF c \in DOMAIN fs THEN fs[c] ELSE "absent"

\* fw.watcher.Add(path): the source keeps cleaned names; it fails on the
\* paths it refuses.
watcherAdd(st, path) ==
    IF Clean(path) \in srcRefuses
    THEN [st EXCEPT !.err = "source"]
    ELSE [st EXCEPT !.srcPaths = @ \cup {Clean(path)}, !.err = "nil"]

\* fw.watcher.Remove(path): an error for a path the source does not hold.
watcherRemove(st, path) ==
    IF Clean(path) \in st.srcPaths
    THEN [st EXCEPT !.srcPaths = @ \ {Clean(path)}, !.err = "nil"]
    ELSE IF srcLenient THEN [st EXCEPT !.err = "nil"]
         ELSE [st EXCEPT !.err = "source"]

\* removePath deleting every entry with the path.
removePath_all(paths, path) ==
    LET Other(wp) == wp.path # path IN SelectSeq(paths, Other)

\* removePath (watcher.go:239-253): the first entry whose path is the
\* same string.
removePath(paths, path) ==
    LET found == {i \in 1..Len(paths) : paths[i].path = path} IN
    IF found = {} THEN paths
    ELSE LET index == Min(found) IN
         SubSeq(paths, 1, index - 1) \o SubSeq(paths, index + 1, Len(paths))

\* AddFile writing the registry before it asks the source.
addFile_appendFirst(st, path, ops) ==
    IF Stat(path) = "dir" THEN [st EXCEPT !.err = "usage"]
    ELSE IF Stat(path) = "absent" THEN [st EXCEPT !.err = "stat"]
    ELSE watcherAdd([st EXCEPT !.watchPaths =
                        Append(@, watchPath(path, NoPattern, ops, FALSE))],
                    path)

\* AddFile (watcher.go:204-220).
addFile(st, path, ops) ==
    IF Stat(path) = "dir" THEN [st EXCEPT !.err = "usage"]
    ELSE IF Stat(path) = "absent" THEN [st EXCEPT !.err = "stat"]
    ELSE LET a == watcherAdd(st, path) IN
         IF a.err # "nil" THEN a
         ELSE [a EXCEPT !.watchPaths =
                   Append(@, watchPath(path, NoPattern, ops, FALSE))]

\* RemoveFile (watcher.go:223-237).
removeFile(st, path) ==
    IF Stat(path) = "dir" THEN [st EXCEPT !.err = "usage"]
    ELSE IF Stat(path) = "absent" THEN [st EXCEPT !.err = "stat"]
    ELSE LET r == watcherRemove(st, path) IN
         IF r.err # "nil" THEN r
         ELSE [r EXCEPT !.watchPaths = removePath(@, path)]

\* addDir (watcher.go:257-274).
addDir(st, path, pattern, ops) ==
    IF Stat(path) = "file" THEN [st EXCEPT !.err = "usage"]
    ELSE IF Stat(path) = "absent" THEN [st EXCEPT !.err = "stat"]
    ELSE LET a == watcherAdd(st, path) IN
         IF a.err # "nil" THEN a
         ELSE [a EXCEPT !.watchPaths =
                   Append(@, watchPath(path, pattern, ops, TRUE))]

\* removeDir (watcher.go:307-324).
removeDir(st, path) ==
    IF Stat(path) = "file" THEN [st EXCEPT !.err = "usage"]
    ELSE IF Stat(path) = "absent" THEN [st EXCEPT !.err = "stat"]
    ELSE LET r == watcherRemove(st, path) IN
         IF r.err # "nil" THEN r
         ELSE [r EXCEPT !.watchPaths = removePath(@, path)]

\* filepath.Walk(root, fn): the root as given, then what is under it, each
\* directory before its content and the names of a directory in lexical
\* order.  TreeOrder is that order on the paths of the model.
TreeOrder == <<pD, pDS, pDSU, pSXT, pXT>>
IsUnder(p, root) ==
    LET c == Clean(root) IN
    /\ Len(p) > Len(c)
    /\ SubSeq(p, 1, Len(c)) = c
\* A walk that does not descend below its root.
Walk_rootOnly(root) == <<root>>

Walk(root) ==
    LET Below(p) == p \in DOMAIN fs /\ IsUnder(p, root)
    IN  <<root>> \o SelectSeq(TreeOrder, Below)

\* The error Walk hands to the function it calls: nil for a path it could
\* stat and read, which is every path of a tree that does not change
\* during the call.
WalkErr(p) == "nil"

\* The walk of AddDir (watcher.go:289-297): the function tests err, the
\* error Walk handed in, and not e, the result of addDir.
RECURSIVE walkAddDir(_, _, _, _)
walkAddDir(st, todo, pattern, ops) ==
    IF todo = <<>> THEN [st EXCEPT !.err = "nil"]
    ELSE LET p == Head(todo) IN
         IF Stat(p) = "dir"
         THEN LET e == addDir(st, p, pattern, ops) IN
              IF WalkErr(p) # "nil" THEN e
              ELSE walkAddDir(e, Tail(todo), pattern, ops)
         ELSE walkAddDir(st, Tail(todo), pattern, ops)

\* The walk of RemoveDir (watcher.go:337-344), with the same test.
RECURSIVE walkRemoveDir(_, _)
walkRemoveDir(st, todo) ==
    IF todo = <<>> THEN [st EXCEPT !.err = "nil"]
    ELSE LET p == Head(todo) IN
         IF Stat(p) = "dir"
         THEN LET e == removeDir(st, p) IN
              IF WalkErr(p) # "nil" THEN e
              ELSE walkRemoveDir(e, Tail(todo))
         ELSE walkRemoveDir(st, Tail(todo))

Before == [watchPaths |-> watchPaths, srcPaths |-> srcPaths, err |-> "nil"]

\* A call leaves the record r: its effect on the watcher and its record in
\* the history of calls.
Returns(call, r) ==
    /\ Len(calls) < MaxCalls
    /\ watchPaths' = r.watchPaths
    /\ srcPaths' = r.srcPaths
    /\ calls' = Append(calls, [call EXCEPT !.err = r.err])
    /\ UNCHANGED <<fs, fsLog, writer, srcRefuses, srcLenient, probe, dispVars>>

Call(op, path, pattern, ops, recursive) ==
    [op |-> op, path |-> path, pattern |-> pattern, ops |-> ops,
     recursive |-> recursive, err |-> "nil"]

AddFile(path, ops) ==
    Returns(Call("AddFile", path, NoPattern, ops, FALSE),
            addFile(Before, path, ops))

RemoveFile(path) ==
    Returns(Call("RemoveFile", path, NoPattern, 0, FALSE),
            removeFile(Before, path))

\* AddDir (watcher.go:279-304).
AddDir(path, pattern, ops, recursive) ==
    LET first == addDir(Before, path, pattern, ops) IN
    Returns(Call("AddDir", path, pattern, ops, recursive),
            IF first.err # "nil" \/ ~recursive THEN first
            ELSE walkAddDir(first, Walk(path), pattern, ops))

\* RemoveDir (watcher.go:328-351).
RemoveDir(path, recursive) ==
    LET first == removeDir(Before, path) IN
    Returns(Call("RemoveDir", path, NoPattern, 0, recursive),
            IF first.err # "nil" \/ ~recursive THEN first
            ELSE walkRemoveDir(first, Walk(path)))

\* Any calls on a new watcher, on a tree that does not change, with a
\* source that may refuse some paths.
CallPaths == {pD, pDS, pXT, pN}
DirConfigs == {<<PatT, AllOps>>, <<NoPattern, Write>>}
Refusable == {pD, pDS, pDSU, pXT}

InitReg ==
    /\ watchPaths = <<>>
    /\ probe = NoProbe
    /\ fs = FullTree
    /\ srcPaths = {}
    /\ srcRefuses \in {R \in SUBSET Refusable :
                          Cardinality(R) <= MaxSourceFailures}
    /\ srcLenient \in BOOLEAN
    /\ calls = <<>>
    /\ fsLog = <<>>
    /\ writer = Nil
    /\ isclosed = FALSE
    /\ closedMu = 0
    /\ chanCloses = 0
    /\ srcCloses = 0
    /\ events = <<>>
    /\ errors = <<>>
    /\ produced = <<>>
    /\ taken = <<>>
    /\ tasks = [t \in TaskIds |-> Task("none", "none")]
    /\ closeLog = <<>>
    /\ log = [t \in TaskIds |-> <<>>]
    /\ blockedAtClose = {}

NextReg ==
    \/ \E path \in CallPaths : AddFile(path, Chmod)
    \/ \E path \in CallPaths : RemoveFile(path)
    \/ \E path \in CallPaths, c \in DirConfigs, recursive \in BOOLEAN :
          AddDir(path, c[1], c[2], recursive)
    \/ \E path \in CallPaths, recursive \in BOOLEAN :
          RemoveDir(path, recursive)

SpecReg == InitReg /\ [][NextReg]_vars

(***************************************************************************)
(* Claims about the registry operations (SpecReg).                         *)
(***************************************************************************)
\* The call made by this step, if it makes one.
Calling == calls' # calls
TheCall == Last(calls')
SinglePath(c) == c.op \in {"AddFile", "RemoveFile"} \/ ~c.recursive
Adds(c) == c.op \in {"AddFile", "AddDir"}
WantsDir(c) == c.op \in {"AddDir", "RemoveDir"}
\* The path is of the kind the call is for.
RightKind(c) == Stat(c.path) = (IF WantsDir(c) THEN "dir" ELSE "file")
\* The source fails the register or unregister the call makes.
SourceFails(c) ==
    IF Adds(c) THEN Clean(c.path) \in srcRefuses
    ELSE Clean(c.path) \notin srcPaths /\ ~srcLenient

\* C14: a single-path call (AddFile, RemoveFile, AddDir and RemoveDir
\* without recursion) returns an error when the path is not of the kind the
\* call is for (a directory or no file for AddFile and RemoveFile, no
\* directory for AddDir and RemoveDir) and when the source fails, and a
\* call that returns an error leaves the registry and the set of paths
\* registered with the source as they were.
C14_FailedCallChangesNothing ==
    [][(Calling /\ SinglePath(TheCall)) =>
          /\ (~RightKind(TheCall) \/ SourceFails(TheCall)) =>
                TheCall.err # "nil"
          /\ TheCall.err # "nil" =>
                (watchPaths' = watchPaths /\ srcPaths' = srcPaths)]_vars

\* After a directory was added, an AddFile that the source refuses: the
\* directory's entry and registration are all there is.
C14_Witness ==
    /\ Len(calls) = 2
    /\ calls[1].op = "AddDir" /\ calls[1].err = "nil"
    /\ calls[2].op = "AddFile" /\ calls[2].err = "source"
    /\ Len(watchPaths) = 1
    /\ srcPaths = {pD}

\* The directories of the tree at and under root.
SubtreeDirs(root) ==
    {p \in DOMAIN fs :
        fs[p] = "dir" /\ (p = Clean(root) \/ IsUnder(p, root))}

HasEntry(paths, p, pattern, ops) ==
    \E i \in 1..Len(paths) :
        /\ Clean(paths[i].path) = p
        /\ paths[i].isdir
        /\ paths[i].pattern = pattern
        /\ paths[i].ops = ops

\* The entry used for a file named x.t directly inside directory p has
\* this pattern and mask.
FilteredWith(paths, p, pattern, ops) ==
    LET wp == findWatchPath(paths, Append(p, nXT)) IN
    /\ wp # Nil
    /\ wp.pattern = pattern
    /\ wp.ops = ops

\* C15 as claimed: when AddDir with recursion returns nil, every directory
\* at and under the root is registered with the source, has an entry with
\* isdir set and the pattern and mask of the call, and an event on a file
\* directly inside it is filtered with that pattern and mask.
C15_RecursiveAddCoversSubtree ==
    [][(/\ Calling
        /\ TheCall.op = "AddDir"
        /\ TheCall.recursive
        /\ TheCall.err = "nil") =>
          \A p \in SubtreeDirs(TheCall.path) :
              /\ p \in srcPaths'
              /\ HasEntry(watchPaths', p, TheCall.pattern, TheCall.ops)
              /\ FilteredWith(watchPaths', p, TheCall.pattern,
                              TheCall.ops)]_vars

\* The entries a lookup of path may give: those of the path itself and of
\* its directory.
NearEntries(paths, path) ==
    {i \in 1..Len(paths) :
        Clean(paths[i].path) \in {Clean(path), Clean(Dir(path))}}

\* C16: a lookup gives an entry of the path itself or of its immediate
\* parent directory, never of a directory further up; where the registry
\* has neither, the lookup gives no entry and both filters reject the path
\* for every op, so that WaitEvent drops the event.
C16_ExactOrParentOnly ==
    probe # NoProbe =>
        /\ probe.wp # Nil =>
              \E i \in NearEntries(watchPaths, probe.path) :
                  probe.wp = watchPaths[i]
        /\ NearEntries(watchPaths, probe.path) = {} =>
              /\ probe.wp = Nil
              /\ probe.byOp = {}
              /\ ~probe.byPattern

\* The directory d has an entry, d/s has none: d/s/x.t resolves to nothing.
C16_Witness ==
    /\ probe # NoProbe
    /\ probe.path = pSXT
    /\ \E i \in 1..Len(watchPaths) :
          watchPaths[i].path = pD /\ watchPaths[i].isdir
    /\ probe.wp = Nil
    /\ probe.byOp = {}
    /\ ~probe.byPattern

\* The source reports changes of a path it holds and of the files directly
\* inside a directory it holds; WaitEvent returns the event when both
\* filters pass.
WouldDeliver(paths, held, name, op) ==
    /\ (Clean(name) \in held \/ Clean(Dir(name)) \in held)
    /\ filterByOp(paths, name, op)
    /\ filterByPattern(paths, name)

\* The call being made directly follows a recursive AddDir of the same
\* root that returned nil on a watcher with no entries, with a source that
\* accepts every path.
AfterRecursiveAdd ==
    /\ Calling
    /\ Len(calls) = 1
    /\ calls[1].op = "AddDir"
    /\ calls[1].recursive
    /\ calls[1].err = "nil"
    /\ srcRefuses = {}
    /\ TheCall.op = "RemoveDir"
    /\ TheCall.path = calls[1].path

\* C17 as claimed: RemoveDir without recursion after a recursive AddDir of
\* the same root leaves no entry for the root and the root not registered
\* with the source, leaves every subdirectory's entry and registration as
\* it was, and so a write to root/x.t is not delivered while a write to
\* root/s/x.t is.
C17_RemoveRootOnly ==
    [][(AfterRecursiveAdd /\ ~TheCall.recursive) =>
          LET root == Clean(TheCall.path)
              sub == Append(root, nS)
              Other(wp) == Clean(wp.path) # root
          IN  /\ \A i \in 1..Len(watchPaths') :
                    Clean(watchPaths'[i].path) # root
              /\ root \notin srcPaths'
              /\ SelectSeq(watchPaths', Other) = SelectSeq(watchPaths, Other)
              /\ srcPaths' \ {root} = srcPaths \ {root}
              /\ ~WouldDeliver(watchPaths', srcPaths', Append(root, nXT),
                               Write)
              /\ sub \in SubtreeDirs(root) =>
                    WouldDeliver(watchPaths', srcPaths', Append(sub, nXT),
                                 Write)]_vars

\* C18 as claimed: RemoveDir with recursion directly after a recursive
\* AddDir of the same root on a watcher with no entries returns nil and
\* leaves no entry and no source registration for the root or any
\* directory under it.
C18_RecursiveRemoveMirrorsAdd ==
    [][(AfterRecursiveAdd /\ TheCall.recursive) =>
          /\ TheCall.err = "nil"
          /\ \A p \in SubtreeDirs(TheCall.path) :
                /\ p \notin srcPaths'
                /\ \A i \in 1..Len(watchPaths') :
                      Clean(watchPaths'[i].path) # p]_vars

\* The directories under the root, in the order the walk meets them.
WalkedSubdirs(root) ==
    LET Sub(p) == p # Clean(root) /\ Stat(p) = "dir"
    IN  SelectSeq(Walk(root), Sub)

\* Positions of WalkedSubdirs(c.path) at which the call c fails: the source
\* refuses to register the directory, or is asked to remove one it does
\* not hold.
FailsAt(c) ==
    LET subs == WalkedSubdirs(c.path) IN
    {i \in 1..Len(subs) :
        IF c.op = "AddDir" THEN subs[i] \in srcRefuses
        ELSE ~srcLenient /\ subs[i] \notin srcPaths}

\* The call c is recursive, gets past its root and then fails at a
\* subdirectory.
FailsPartway(c) ==
    /\ c.op \in {"AddDir", "RemoveDir"}
    /\ c.recursive
    /\ Stat(c.path) = "dir"
    /\ IF c.op = "AddDir" THEN Clean(c.path) \notin srcRefuses
       ELSE srcLenient \/ Clean(c.path) \in srcPaths
    /\ FailsAt(c) # {}

\* C19 as claimed: a recursive AddDir or RemoveDir that fails at a
\* subdirectory returns an error, and the subdirectories the walk met
\* before the first failure stay registered with the source (AddDir) or
\* unregistered (RemoveDir).
C19_PartialFailureSurfaced ==
    [][(Calling /\ FailsPartway(TheCall)) =>
          LET subs == WalkedSubdirs(TheCall.path)
              first == Min(FailsAt(TheCall))
          IN  /\ TheCall.err # "nil"
              /\ \A j \in 1..(first - 1) :
                    IF TheCall.op = "AddDir" THEN subs[j] \in srcPaths'
                    ELSE subs[j] \notin srcPaths']_vars

(***************************************************************************)
(* A directory tree that changes while it is watched: AddDir(d) with the   *)
(* pattern *.t, the subdirectory d/s created before or after the call, the *)
(* file d/s/x.t written, and WaitEvent loops that receive what the source  *)
(* reports.                                                                *)
(***************************************************************************)
SubTree == [p \in {pD, pDS, pSXT} |-> IF p = pSXT THEN "file" ELSE "dir"]
BareTree == [p \in {pD} |-> "dir"]

\* The source reports a change of a path it holds and of a path directly
\* inside a directory it holds.
Watched(path) == path \in srcPaths \/ Clean(Dir(path)) \in srcPaths

\* The source sends e on its event stream (received at watcher.go:160).
Emit(e) ==
    /\ Len(produced) < MaxEvents
    /\ produced' = Append(produced, e)
    /\ IF Parked # {}
       THEN \E t \in Parked :
               /\ tasks' = [tasks EXCEPT ![t].pc = "filterOp", ![t].ev = e]
               /\ taken' = Append(taken, [t |-> t, ev |-> e, err |-> "nil"])
               /\ UNCHANGED events
       ELSE /\ events' = Append(events, e)
            /\ UNCHANGED <<tasks, taken>>

\* A process changes the file system; the source reports the change when
\* it watches the path. The watcher itself does nothing at this point: it
\* has no code that reacts to a new directory.
FsChange(what, path, kind, op) ==
    /\ Len(fsLog) < MaxFsOps
    /\ Stat(Dir(path)) = "dir"
    /\ fs' = [p \in DOMAIN fs \cup {path} |-> IF p = path THEN kind ELSE fs[p]]
    /\ fsLog' = Append(fsLog, [what |-> what, path |-> path,
                               after |-> Len(calls)])
    /\ IF Watched(path) THEN Emit(RawEvent(path, op))
       ELSE UNCHANGED <<produced, events, tasks, taken>>
    /\ UNCHANGED <<watchPaths, probe, srcPaths, srcRefuses, srcLenient, calls,
                   writer, isclosed, closedMu, chanCloses, srcCloses, errors,
                   closeLog, log, blockedAtClose>>

Mkdir(path) == Stat(path) = "absent" /\ FsChange("mkdir", path, "dir", Create)

CreateFile(path) ==
    Stat(path) = "absent" /\ FsChange("create", path, "file", Create)

WriteFile(path) == Stat(path) = "file" /\ FsChange("write", path, "file", Write)

InitTree ==
    /\ watchPaths = <<>>
    /\ probe = NoProbe
    /\ fs \in {SubTree, BareTree}
    /\ srcPaths = {}
    /\ srcRefuses \in SUBSET {pDS}
    /\ srcLenient = FALSE
    /\ calls = <<>>
    /\ fsLog = <<>>
    /\ writer = Nil
    /\ isclosed = FALSE
    /\ closedMu = 0
    /\ chanCloses = 0
    /\ srcCloses = 0
    /\ events = <<>>
    /\ errors = <<>>
    /\ produced = <<>>
    /\ taken = <<>>
    /\ tasks = [t \in TaskIds |-> Task("none", "none")]
    /\ closeLog = <<>>
    /\ log = [t \in TaskIds |-> <<>>]
    /\ blockedAtClose = {}

NextTree ==
    \/ \E ops \in {AllOps, Write}, recursive \in BOOLEAN :
          AddDir(pD, PatT, ops, recursive)
    \/ Mkdir(pDS)
    \/ CreateFile(pSXT)
    \/ WriteFile(pSXT)
    \/ \E t \in DeliveryIds : StartWaitEvent(t)
    \/ \E t \in DeliveryIds : WaitEvent(t)
    \/ \E t \in DeliveryIds : WaitEventReturn(t)

SpecTree == InitTree /\ [][NextTree]_vars

\* The path existed when call number i was made.
ExistedAt(path, i) ==
    /\ path \in DOMAIN fs
    /\ \A k \in 1..Len(fsLog) :
          (fsLog[k].what = "mkdir" /\ fsLog[k].path = path) =>
              fsLog[k].after < i

\* Call number i is a recursive AddDir that returned nil.
RecursiveAdd(i) ==
    /\ calls[i].op = "AddDir"
    /\ calls[i].recursive
    /\ calls[i].err = "nil"

\* One of the first n calls is a recursive AddDir that found d/s and
\* registered it with the source.
Covered(n) ==
    \E i \in 1..n :
        RecursiveAdd(i) /\ ExistedAt(pDS, i) /\ pDS \notin srcRefuses

\* The writes to d/s/x.t so far, and how many events for them WaitEvent has
\* returned.
Writes == {k \in 1..Len(fsLog) : fsLog[k].what = "write"}
DeliveredWrites ==
    Cardinality({x \in DeliveryIds \X (1..MaxFsOps) :
                    /\ x[2] <= Len(Delivered(x[1]))
                    /\ Delivered(x[1])[x[2]] = <<pSXT, Write>>})

CloseReturned == closeLog # <<>>

\* C21 as claimed: once Close has returned, the select of every WaitEvent
\* call takes the closed case, never a pending event or error, and no
\* NotifyEvent task calls its function any more.
C21_ClosedIsFinal ==
    [][CloseReturned =>
          \A t \in ConsumerIds :
              /\ (tasks[t].pc = "select" /\ tasks'[t].pc # "select") =>
                    (tasks'[t].pc = "ret" /\ tasks'[t].err = "closed")
              /\ tasks'[t].pc = "cb" => tasks[t].pc = "cb"]_vars

\* The entries of paths for the directory p.
EntriesAt(paths, p) == {i \in 1..Len(paths) : Clean(paths[i].path) = p}

\* C22 as claimed: a recursive AddDir that returns nil on a watcher with no
\* entries, with a source that accepts every path, leaves exactly one
\* entry for each directory of the subtree, the root included, and no
\* other entry.
C22_RootAddedOnce ==
    [][(/\ Calling
        /\ calls = <<>>
        /\ srcRefuses = {}
        /\ TheCall.op = "AddDir"
        /\ TheCall.recursive
        /\ TheCall.err = "nil") =>
          /\ Len(watchPaths') = Cardinality(SubtreeDirs(TheCall.path))
          /\ \A p \in SubtreeDirs(TheCall.path) :
                Cardinality(EntriesAt(watchPaths', p)) = 1]_vars

(***************************************************************************)
(* Add* and Remove* calls made while a WaitEvent loop runs. The struct     *)
(* has one mutex, closedMu, and only Close takes it (watcher.go:30,        *)
(* 145-146): the write of fw.watchPaths at the end of a call and the       *)
(* lookups of WaitEvent are not ordered by anything. A call is split here  *)
(* in two steps, the start of its write of fw.watchPaths and the end of    *)
(* it; a lookup that runs in between reads the slice while it is written.  *)
(***************************************************************************)
RaceTree == [p \in {pD, pXT, pXI} |-> IF p = pD THEN "dir" ELSE "file"]
RaceEvents == {RawEvent(pXI, Write), RawEvent(pXT, Write)}

\* A call has done its test of the path and its call of the source. With
\* nothing to write (an error, no entry to delete) it returns; otherwise it
\* starts to write fw.watchPaths (watcher.go:218, 235, 271, 321).
Mutates(call, r) ==
    /\ writer = Nil
    /\ Len(calls) < MaxCalls
    /\ srcPaths' = r.srcPaths
    /\ IF r.watchPaths = watchPaths
       THEN /\ calls' = Append(calls, [call EXCEPT !.err = r.err])
            /\ UNCHANGED writer
       ELSE /\ writer' = [call |-> [call EXCEPT !.err = r.err],
                          watchPaths |-> r.watchPaths]
            /\ UNCHANGED calls
    /\ UNCHANGED <<watchPaths, fs, fsLog, srcRefuses, srcLenient, probe,
                   dispVars>>

\* The write of fw.watchPaths is over and the call returns.
RegistryWritten ==
    /\ writer # Nil
    /\ watchPaths' = writer.watchPaths
    /\ calls' = Append(calls, writer.call)
    /\ writer' = Nil
    /\ UNCHANGED <<fs, fsLog, srcPaths, srcRefuses, srcLenient, probe,
                   dispVars>>

AddFileStart(path, ops) ==
    Mutates(Call("AddFile", path, NoPattern, ops, FALSE),
            addFile(Before, path, ops))

RemoveFileStart(path) ==
    Mutates(Call("RemoveFile", path, NoPattern, 0, FALSE),
            removeFile(Before, path))

AddDirStart(path, pattern, ops) ==
    Mutates(Call("AddDir", path, pattern, ops, FALSE),
            addDir(Before, path, pattern, ops))

RemoveDirStart(path) ==
    Mutates(Call("RemoveDir", path, NoPattern, 0, FALSE),
            removeDir(Before, path))

\* The source reports a write to a file it watches.
RaceEvent(e) ==
    /\ Watched(e.Name)
    /\ Emit(e)
    /\ UNCHANGED <<watchPaths, probe, treeVars, isclosed, closedMu,
                   chanCloses, srcCloses, errors, closeLog, log,
                   blockedAtClose>>

InitRace ==
    /\ watchPaths = <<>>
    /\ probe = NoProbe
    /\ fs = RaceTree
    /\ srcPaths = {}
    /\ srcRefuses = {}
    /\ srcLenient = FALSE
    /\ calls = <<>>
    /\ fsLog = <<>>
    /\ writer = Nil
    /\ isclosed = FALSE
    /\ closedMu = 0
    /\ chanCloses = 0
    /\ srcCloses = 0
    /\ events = <<>>
    /\ errors = <<>>
    /\ produced = <<>>
    /\ taken = <<>>
    /\ tasks = [t \in TaskIds |-> Task("none", "none")]
    /\ closeLog = <<>>
    /\ log = [t \in TaskIds |-> <<>>]
    /\ blockedAtClose = {}

NextRace ==
    \/ AddDirStart(pD, PatT, Write)
    \/ AddFileStart(pXI, Chmod)
    \/ RemoveDirStart(pD)
    \/ RemoveFileStart(pXI)
    \/ RegistryWritten
    \/ \E e \in RaceEvents : RaceEvent(e)
    \/ \E t \in DeliveryIds : StartWaitEvent(t)
    \/ \E t \in DeliveryIds : WaitEvent(t)
    \/ \E t \in DeliveryIds : WaitEventReturn(t)

SpecRace == InitRace /\ [][NextRace]_vars

\* The goroutine t evaluates a lookup in this step: filterByOp or
\* filterByPattern runs findWatchPath over fw.watchPaths.
Scans(t) ==
    /\ tasks[t].pc \in {"filterOp", "filterPat"}
    /\ tasks'[t] # tasks[t]

\* C23 as claimed: no lookup of a WaitEvent call runs while a call of
\* AddFile, AddDir, RemoveFile or RemoveDir is writing the registry.
C23_RegistryWriteExcludesLookup ==
    [][\A t \in ConsumerIds : Scans(t) => writer = Nil]_vars

\* The entry a successful AddFile or AddDir call appends.
EntryOf(c) == watchPath(c.path, c.pattern, c.ops, c.op = "AddDir")

\* Every entry the registry has held so far or is being given.
EverEntries ==
    {EntryOf(calls[i]) : i \in {j \in 1..Len(calls) :
                                   /\ calls[j].op \in {"AddFile", "AddDir"}
                                   /\ calls[j].err = "nil"}}
    \cup {watchPaths[i] : i \in 1..Len(watchPaths)}
    \cup (IF writer = Nil THEN {}
          ELSE {writer.watchPaths[i] : i \in 1..Len(writer.watchPaths)})

\* The entry e alone accepts the event: it is found for the name, its mask
\* contains the op and its pattern accepts the name.
AcceptsBoth(e, name, op) ==
    filterByOp(<<e>>, name, op) /\ filterByPattern(<<e>>, name)

\* C24 as claimed: with Add* and Remove* calls interleaved with WaitEvent,
\* every event WaitEvent has returned is accepted, for its op and for its
\* pattern, by one and the same entry among those the registry has held.
C24_OneEntryDecides ==
    \A t \in ConsumerIds :
        \A i \in 1..Len(log[t]) :
            log[t][i].ev # Nil =>
                \E e \in EverEntries :
                    AcceptsBoth(e, log[t][i].ev.Name, log[t][i].ev.Op)

\* C25 as claimed: after any sequence of AddFile, AddDir, RemoveFile and
\* RemoveDir calls on an open watcher, every path with an entry in the
\* registry is registered with the source.
C25_EntriesAreWatched ==
    \A i \in 1..Len(watchPaths) : Clean(watchPaths[i].path) \in srcPaths

(***************************************************************************)
(* The registry as a sequence: calls on a registry that already holds      *)
(* entries, among them two for one path and two whose paths differ as      *)
(* strings and name one directory (d and d/).                              *)
(***************************************************************************)
SeqPaths == {pD, pDslash, pXT}
SeqEntries ==
    {watchPath(pD, PatT, AllOps, TRUE), watchPath(pDslash, NoPattern, Write, TRUE),
     watchPath(pXT, NoPattern, Chmod, FALSE)}

\* The registry left by earlier successful Add* calls, each path of it
\* registered with the source.
InitSeq ==
    /\ watchPaths \in SeqsUpTo(SeqEntries, MaxFilterWatch)
    /\ probe = NoProbe
    /\ fs = FullTree
    /\ srcPaths = {Clean(watchPaths[i].path) : i \in 1..Len(watchPaths)}
    /\ srcRefuses = {}
    /\ srcLenient \in BOOLEAN
    /\ calls = <<>>
    /\ fsLog = <<>>
    /\ writer = Nil
    /\ isclosed = FALSE
    /\ closedMu = 0
    /\ chanCloses = 0
    /\ srcCloses = 0
    /\ events = <<>>
    /\ errors = <<>>
    /\ produced = <<>>
    /\ taken = <<>>
    /\ tasks = [t \in TaskIds |-> Task("none", "none")]
    /\ closeLog = <<>>
    /\ log = [t \in TaskIds |-> <<>>]
    /\ blockedAtClose = {}

NextSeq ==
    \/ \E path \in SeqPaths : AddFile(path, Write)
    \/ \E path \in SeqPaths : RemoveFile(path)
    \/ \E path \in SeqPaths : AddDir(path, PatT, Chmod, FALSE)
    \/ \E path \in SeqPaths : RemoveDir(path, FALSE)

SpecSeq == InitSeq /\ [][NextSeq]_vars

\* new is old without its element number k.
Without(old, new, k) ==
    /\ Len(new) = Len(old) - 1
    /\ \A j \in 1..Len(new) : new[j] = IF j < k THEN old[j] ELSE old[j + 1]

\* C26: a successful AddFile or AddDir leaves the registry with one more
\* entry, its own, at the end, whatever the registry holds already; a
\* successful RemoveFile or RemoveDir deletes the first entry whose path is
\* the same string as its argument and keeps every other entry in its
\* place, later entries of the same path included, and changes nothing
\* when no entry has that string as its path.
C26_RegistryIsOrderedSequence ==
    [][(Calling /\ TheCall.err = "nil") =>
          LET same == {i \in 1..Len(watchPaths) :
                          watchPaths[i].path = TheCall.path}
          IN  IF Adds(TheCall)
              THEN watchPaths' = watchPaths \o <<EntryOf(TheCall)>>
              ELSE IF same = {}
              THEN watchPaths' = watchPaths
              ELSE \E k \in same :
                      /\ \A j \in same : k <= j
                      /\ Without(watchPaths, watchPaths', k)]_vars

\* RemoveDir(d) returned nil on a registry with more than one entry for d,
\* and an entry for d is still there.
C26_Witness ==
    /\ calls # <<>>
    /\ Last(calls).op = "RemoveDir"
    /\ Last(calls).path = pD
    /\ Last(calls).err = "nil"
    /\ \E i \in 1..Len(watchPaths) : watchPaths[i].path = pD

\* The entries the path resolves to: its own when it has any, those of its
\* directory otherwise, in the order they were added.
Resolving(paths, path) ==
    IF OwnEntries(paths, path) # {} THEN OwnEntries(paths, path)
    ELSE ParentEntries(paths, path)

\* What the filters give with the entry e as the only one.
OpsOf(e, path) == {op \in OpMasks : filterByOp(<<e>>, path, op)}
PatternOf(e, path) == filterByPattern(<<e>>, path)

\* C27: when the registry holds more than one entry for the path an event
\* resolves to, the lookup gives the earliest of them and both filters
\* decide as if that entry were the only one: the mask and the pattern of a
\* later entry for the same path change nothing while the earlier one is
\* in the registry.
C27_EarliestEntryFilters ==
    probe # NoProbe =>
        LET same == Resolving(watchPaths, probe.path) IN
        Cardinality(same) > 1 =>
            LET first == watchPaths[Min(same)] IN
            /\ probe.wp = first
            /\ probe.byOp = OpsOf(first, probe.path)
            /\ probe.byPattern = PatternOf(first, probe.path)

\* d was added twice; the second entry alone would give another mask and
\* another pattern decision for d/x.i, and the lookup follows the first.
C27_Witness ==
    /\ probe # NoProbe
    /\ probe.path = pXI
    /\ Len(watchPaths) = 2
    /\ watchPaths[1].path = pD
    /\ watchPaths[2].path = pD
    /\ probe.byOp = OpsOf(watchPaths[1], pXI)
    /\ probe.byOp # OpsOf(watchPaths[2], pXI)
    /\ probe.byPattern = PatternOf(watchPaths[1], pXI)
    /\ probe.byPattern # PatternOf(watchPaths[2], pXI)

=============================================================================
